---- MODULE Spec2Model ----
(***************************************************************************)
(* A model of luigi_pipeline.py: five luigi tasks                          *)
(*   Download -> Extract -> Process -> Trim -> Cleanup                     *)
(* run by luigi.run() against one working directory.                       *)
(*                                                                         *)
(* The task classes (parameters, requires, output, run) are translated     *)
(* from the file.  The runner is luigi's worker with its local scheduler,  *)
(* which the file starts on its last line: the worker first adds the       *)
(* target (a task whose output exists is DONE and its requirements are not *)
(* looked at; otherwise the task is PENDING and its requirements are added *)
(* the same way), then runs, one at a time, a PENDING task all of whose    *)
(* requirements are DONE, after checking again that they are complete; a   *)
(* task whose run() raises is FAILED and is not run again in that run.     *)
(*                                                                         *)
(* File names are sequences of one-character strings, so that endswith()   *)
(* and replace() are computed as Python computes them.                     *)
(***************************************************************************)
EXTENDS Naturals, Sequences, FiniteSets, TLC

VARIABLES
    fs,        \* the working directory: its directories and files
    phase,     \* per runner: "idle" or "running"
    target,    \* per runner: the task named on the command line
    status,    \* per runner: task -> Pending/Skipped/Running/Succeeded/Failed
    pc,        \* per runner: the position inside the running task's run()
    todo,      \* per runner: the rest of the loop run() is in
    log,       \* per runner: the events of the run, in order
    fs0,       \* per runner: the working directory when the run was scheduled
    last,      \* the run that ended last: its target, its failed tasks, the directory it left
    nruns,     \* the number of runs started
    hist,      \* the <<class, dataset_name>> whose run() has returned without error, over all runs
    df_in,     \* _trim_columns alone: the file it reads
    df_out     \* _trim_columns alone: the file it has written

vars == <<fs, phase, target, status, pc, todo, log, fs0, last, nruns, hist, df_in, df_out>>

runvars == <<fs, phase, target, status, pc, todo, log, fs0, last, nruns, hist>>

(***************************************************************************)
(* Bounds                                                                  *)
(***************************************************************************)
\* the number of pipeline runs in one behaviour
MaxRuns == 2

\* the size of the tables _trim_columns is tried on
MaxCols == 3

MaxRows == 2

(***************************************************************************)
(* Strings                                                                 *)
(***************************************************************************)
RECURSIVE StartsWith(_, _)
StartsWith(s, p) ==
    IF p = <<>> THEN TRUE
    ELSE IF s = <<>> THEN FALSE
    ELSE Head(s) = Head(p) /\ StartsWith(Tail(s), Tail(p))

\* s[n:]
RECURSIVE From(_, _)
From(s, n) == IF n = 0 \/ s = <<>> THEN s ELSE From(Tail(s), n - 1)

\* str.endswith
EndsWith(s, p) ==
    Len(s) >= Len(p) /\ From(s, Len(s) - Len(p)) = p

\* str.replace(old, new) for a non-empty old: every occurrence, left to right,
\* not overlapping
RECURSIVE Replace(_, _, _)
Replace(s, old, new) ==
    IF s = <<>> THEN <<>>
    ELSE IF StartsWith(s, old) THEN new \o Replace(From(s, Len(old)), old, new)
    ELSE <<Head(s)>> \o Replace(Tail(s), old, new)

GzSuffix == <<".", "g", "z">>

TxtGzSuffix == <<".", "t", "x", "t", ".", "g", "z">>

ProcessedSuffix == <<"_", "p", "r", "o", "c", "e", "s", "s", "e", "d", ".", "t", "x", "t">>

TrimmedSuffix == <<"_", "t", "r", "i", "m", "m", "e", "d", ".", "t", "x", "t">>

RawTarSuffix == <<"_", "R", "A", "W", ".", "t", "a", "r">>

SentinelName ==
    <<"c", "l", "e", "a", "n", "u", "p", "_", "s", "t", "a", "t", "u", "s", ".", "d", "o", "n", "e">>

(***************************************************************************)
(* Tables: a delimited text file is a sequence of lines, a line a sequence *)
(* of fields; a data frame has column labels and rows                      *)
(***************************************************************************)
\* pd.read_csv(file_path, sep='\t') raises on a file with no line
CanReadCsv(lines) == lines # <<>>

\* pd.read_csv(file_path, sep='\t'): the first line is the header
ReadCsv(lines) == [columns |-> Head(lines), rows |-> Tail(lines)]

\* the positions of the columns that df.drop(columns=remove, errors='ignore') keeps
KeptColumns(columns, remove) ==
    LET F[i \in 0..Len(columns)] ==
            IF i = 0 THEN <<>>
            ELSE IF columns[i] \in remove THEN F[i - 1] ELSE Append(F[i - 1], i)
    IN  F[Len(columns)]

\* a drop that takes the labels out of the header and leaves the rows whole
DropColumnsHeaderOnly(df, remove) ==
    LET keep == KeptColumns(df.columns, remove)
    IN  [columns |-> [k \in 1..Len(keep) |-> df.columns[keep[k]]], rows |-> df.rows]

\* df.drop(columns=remove, errors='ignore')
DropColumns(df, remove) ==
    LET keep == KeptColumns(df.columns, remove)
        Sel(row) == [k \in 1..Len(keep) |-> row[keep[k]]]
    IN  [columns |-> Sel(df.columns),
         rows |-> [r \in 1..Len(df.rows) |-> Sel(df.rows[r])]]

\* df.to_csv(path, sep='\t', index=False): the header line, then the rows
ToCsv(df) == <<df.columns>> \o df.rows

columns_to_remove ==
    {"Definition", "Ontology_Component", "Ontology_Process", "Ontology_Function"}

\* what _trim_columns writes for a file holding `lines`
TrimmedLines(lines) == ToCsv(DropColumns(ReadCsv(lines), columns_to_remove))

(***************************************************************************)
(* The working directory                                                   *)
(***************************************************************************)
Text(lines) == [type |-> "text", lines |-> lines]

Gz(lines) == [type |-> "gz", lines |-> lines]

Tar(ds) == [type |-> "tar", of |-> ds]

\* the current directory itself, which holds cleanup_status.done
Cwd == "."

EmptyFs == [dirs |-> {}, files |-> {}]

\* a location: a directory (name = <<>>) or a file in a directory
DirLoc(d) == [dir |-> d, name |-> <<>>]

FileLoc(d, n) == [dir |-> d, name |-> n]

DirExists(f, d) == d = Cwd \/ d \in f.dirs

FileExists(f, d, n) == \E x \in f.files : x.dir = d /\ x.name = n

\* os.path.exists
Exists(f, loc) ==
    IF loc.name = <<>> THEN DirExists(f, loc.dir)
    ELSE FileExists(f, loc.dir, loc.name)

\* what the file holds
Content(f, d, n) == (CHOOSE x \in f.files : x.dir = d /\ x.name = n).content

\* os.makedirs(d, exist_ok=True)
MakeDirs(f, d) == [f EXCEPT !.dirs = @ \cup {d}]

\* open(path, 'w').write(content): a new file, or the old one overwritten
WriteFile(f, d, n, content) ==
    [f EXCEPT !.files =
        {x \in @ : ~(x.dir = d /\ x.name = n)}
            \cup {[dir |-> d, name |-> n, content |-> content]}]

\* the file names os.walk lists in d (none when d does not exist)
ListDir(f, d) == {x.name : x \in {y \in f.files : y.dir = d}}

\* a removal that empties d and leaves the directory itself
RmTreeKeepDir(f, d) == [f EXCEPT !.files = {x \in @ : x.dir # d}]

\* shutil.rmtree(d)
RmTree(f, d) ==
    [dirs |-> f.dirs \ {d}, files |-> {x \in f.files : x.dir # d}]

(***************************************************************************)
(* The tasks                                                               *)
(***************************************************************************)
\* the parameter defaults
default_dataset_name == "GSE68849"

default_download_dir == "data_downloads"

default_extract_dir == "data_extracted"

default_processed_dir == "data_processed"

default_trimmed_dir == "data_trimmed"

\* a default under which CleanupTask removes nothing
no_cleanup_dirs == <<>>

default_cleanup_dirs == <<"data_downloads", "data_extracted">>

\* a parameter the task class does not have
NA == "-"

\* the dataset names and the other directory tried as parameter values
OtherDataset == "GSE1"

Datasets == {default_dataset_name, OtherDataset}

OtherDir == "work"

DatasetChars(ds) ==
    IF ds = default_dataset_name THEN <<"G", "S", "E", "6", "8", "8", "4", "9">>
    ELSE <<"G", "S", "E", "1">>

DownloadDatasetTask(ds, dl) ==
    [cls |-> "DownloadDatasetTask", dataset_name |-> ds, download_dir |-> dl,
     extract_dir |-> NA, processed_dir |-> NA, trimmed_dir |-> NA,
     cleanup_dirs |-> <<>>]

ExtractDatasetTask(ds, dl, ex) ==
    [cls |-> "ExtractDatasetTask", dataset_name |-> ds, download_dir |-> dl,
     extract_dir |-> ex, processed_dir |-> NA, trimmed_dir |-> NA,
     cleanup_dirs |-> <<>>]

ProcessDatasetTask(ds, ex, pr) ==
    [cls |-> "ProcessDatasetTask", dataset_name |-> ds, download_dir |-> NA,
     extract_dir |-> ex, processed_dir |-> pr, trimmed_dir |-> NA,
     cleanup_dirs |-> <<>>]

TrimDatasetColumnsTask(ds, pr, tr) ==
    [cls |-> "TrimDatasetColumnsTask", dataset_name |-> ds, download_dir |-> NA,
     extract_dir |-> NA, processed_dir |-> pr, trimmed_dir |-> tr,
     cleanup_dirs |-> <<>>]

CleanupTask(ds, cd) ==
    [cls |-> "CleanupTask", dataset_name |-> ds, download_dir |-> NA,
     extract_dir |-> NA, processed_dir |-> NA, trimmed_dir |-> NA,
     cleanup_dirs |-> cd]

NoTask ==
    [cls |-> "none", dataset_name |-> NA, download_dir |-> NA,
     extract_dir |-> NA, processed_dir |-> NA, trimmed_dir |-> NA,
     cleanup_dirs |-> <<>>]

\* requires(): positional arguments fill the parameters in declaration order,
\* the parameters not passed take their defaults
\* a requires() that leaves dataset_name to its default where the code passes
\* self.dataset_name (lines 50, 83, 114)
RequiresDefaultDataset(t) ==
    CASE t.cls = "DownloadDatasetTask" -> {}
      [] t.cls = "ExtractDatasetTask" ->
            {DownloadDatasetTask(t.dataset_name, t.download_dir)}
      [] t.cls = "ProcessDatasetTask" ->
            {ExtractDatasetTask(default_dataset_name, default_download_dir, default_extract_dir)}
      [] t.cls = "TrimDatasetColumnsTask" ->
            {ProcessDatasetTask(default_dataset_name, default_extract_dir, default_processed_dir)}
      [] t.cls = "CleanupTask" ->
            {TrimDatasetColumnsTask(default_dataset_name, default_processed_dir, default_trimmed_dir)}

requires(t) ==
    CASE t.cls = "DownloadDatasetTask" -> {}
      [] t.cls = "ExtractDatasetTask" ->
            {DownloadDatasetTask(t.dataset_name, t.download_dir)}
      [] t.cls = "ProcessDatasetTask" ->
            {ExtractDatasetTask(t.dataset_name, default_download_dir, default_extract_dir)}
      [] t.cls = "TrimDatasetColumnsTask" ->
            {ProcessDatasetTask(t.dataset_name, default_extract_dir, default_processed_dir)}
      [] t.cls = "CleanupTask" ->
            {TrimDatasetColumnsTask(t.dataset_name, default_processed_dir, default_trimmed_dir)}

\* <dataset_name>_RAW.tar
RawTarName(ds) == DatasetChars(ds) \o RawTarSuffix

\* output()
output(t) ==
    CASE t.cls = "DownloadDatasetTask" ->
            FileLoc(t.download_dir, RawTarName(t.dataset_name))
      [] t.cls = "ExtractDatasetTask" -> DirLoc(t.extract_dir)
      [] t.cls = "ProcessDatasetTask" -> DirLoc(t.processed_dir)
      [] t.cls = "TrimDatasetColumnsTask" -> DirLoc(t.trimmed_dir)
      [] t.cls = "CleanupTask" -> FileLoc(Cwd, SentinelName)

\* a completeness check that wants a directory output to hold a file
CompleteNonEmpty(f, t) ==
    /\ Exists(f, output(t))
    /\ output(t).name = <<>> => ListDir(f, output(t).dir) # {}

\* luigi.Task.complete(): the output exists
complete(f, t) == Exists(f, output(t))

\* the command lines tried: each task class for each dataset name with the
\* default directories, and for the default dataset each directory parameter
\* also at OtherDir
DirChoices(ds, d) == IF ds = default_dataset_name THEN {d, OtherDir} ELSE {d}

CleanupChoices(ds) ==
    IF ds = default_dataset_name
    THEN {default_cleanup_dirs, <<"data_downloads">>, <<OtherDir>>}
    ELSE {default_cleanup_dirs}

TargetsOf(ds) ==
    {DownloadDatasetTask(ds, dl) : dl \in DirChoices(ds, default_download_dir)}
    \cup {ExtractDatasetTask(ds, dl, ex) :
        dl \in DirChoices(ds, default_download_dir),
        ex \in DirChoices(ds, default_extract_dir)}
    \cup {ProcessDatasetTask(ds, ex, pr) :
        ex \in DirChoices(ds, default_extract_dir),
        pr \in DirChoices(ds, default_processed_dir)}
    \cup {TrimDatasetColumnsTask(ds, pr, tr) :
        pr \in DirChoices(ds, default_processed_dir),
        tr \in DirChoices(ds, default_trimmed_dir)}
    \cup {CleanupTask(ds, cd) : cd \in CleanupChoices(ds)}

Targets == UNION {TargetsOf(ds) : ds \in Datasets}

(***************************************************************************)
(* What the FTP server holds                                               *)
(***************************************************************************)
FooTxtGz == <<"f", "o", "o", ".", "t", "x", "t", ".", "g", "z">>

ReadmeName == <<"r", ".", "m", "d">>

BarTxtGz == <<"b", ".", "t", "x", "t", ".", "g", "z">>

FooTable ==
    <<<<"ID_REF", "Definition", "VALUE", "Ontology_Process">>,
      <<"p1", "d1", "v1", "o1">>,
      <<"p2", "d2", "v2", "o2">>>>

BarTable == <<<<"ID_REF", "VALUE">>, <<"q1", "w1">>>>

\* the members of <dataset_name>_RAW.tar, in archive order
Members(ds) ==
    IF ds = default_dataset_name
    THEN <<[name |-> FooTxtGz, content |-> Gz(FooTable)],
           [name |-> ReadmeName, content |-> Text(<<<<"notes">>>>)]>>
    ELSE <<[name |-> BarTxtGz, content |-> Gz(BarTable)]>>

(***************************************************************************)
(* The runner: luigi.run()                                                 *)
(***************************************************************************)
Runners == {"r1", "r2"}

\* worker.add(target): the tasks the worker adds.  A complete task is DONE
\* and its requirements are not added.
RECURSIVE Added(_, _)
Added(f, t) ==
    IF complete(f, t) THEN {t}
    ELSE {t} \cup UNION {Added(f, d) : d \in requires(t)}

\* the status each added task starts the run with
Scheduled(f, t) ==
    [x \in Added(f, t) |-> IF complete(f, x) THEN "Skipped" ELSE "Pending"]

\* a scheduler that takes a failed requirement for a finished one
IsDoneOrFailed(st) == st \in {"Skipped", "Succeeded", "Failed"}

\* DONE: skipped as complete, or run() returned
IsDone(st) == st \in {"Skipped", "Succeeded"}

Graph(r) == DOMAIN status[r]

Running(r) == {t \in Graph(r) : status[r][t] = "Running"}

\* a scheduler that hands out any PENDING task
RunnableAny(r, t) == status[r][t] = "Pending"

\* the scheduler hands out a PENDING task all of whose requirements are DONE
Runnable(r, t) ==
    /\ status[r][t] = "Pending"
    /\ \A d \in requires(t) : d \in Graph(r) /\ IsDone(status[r][d])

\* the first position in run()
FirstPc(t) == IF t.cls = "CleanupTask" THEN "dirs" ELSE "makedirs"

Event(e, t, f) == [ev |-> e, task |-> t, fs |-> f]

NoStatus == [x \in {} |-> "Pending"]

NoRun == [target |-> NoTask, failed |-> {}, fs |-> EmptyFs]

\* `python luigi_pipeline.py <Task> --<param> <value> ...`
Schedule(r, t) ==
    /\ phase[r] = "idle"
    /\ nruns < MaxRuns
    /\ phase' = [phase EXCEPT ![r] = "running"]
    /\ target' = [target EXCEPT ![r] = t]
    /\ status' = [status EXCEPT ![r] = Scheduled(fs, t)]
    /\ fs0' = [fs0 EXCEPT ![r] = fs]
    /\ log' = [log EXCEPT ![r] = <<>>]
    /\ nruns' = nruns + 1
    /\ UNCHANGED <<fs, pc, todo, last, hist, df_in, df_out>>

\* a worker that takes a lock on the task: it does not start a task another
\* run is executing
StartTaskLocked(r, t) ==
    /\ \A q \in Runners \ {r} : t \notin Running(q)
    /\ phase[r] = "running"
    /\ Running(r) = {}
    /\ t \in Graph(r)
    /\ Runnable(r, t)
    /\ \A d \in requires(t) : complete(fs, d)
    /\ status' = [status EXCEPT ![r][t] = "Running"]
    /\ pc' = [pc EXCEPT ![r] = FirstPc(t)]
    /\ todo' = [todo EXCEPT ![r] =
            IF t.cls = "CleanupTask" THEN t.cleanup_dirs ELSE {}]
    /\ log' = [log EXCEPT ![r] = Append(@, Event("start", t, fs))]
    /\ UNCHANGED <<fs, phase, target, fs0, last, nruns, hist, df_in, df_out>>

\* the worker (one process) takes the next task: TaskProcess.run checks that
\* the requirements are complete, then calls run()
StartTask(r, t) ==
    /\ phase[r] = "running"
    /\ Running(r) = {}
    /\ t \in Graph(r)
    /\ Runnable(r, t)
    /\ IF \A d \in requires(t) : complete(fs, d)
       THEN /\ status' = [status EXCEPT ![r][t] = "Running"]
            /\ pc' = [pc EXCEPT ![r] = FirstPc(t)]
            /\ todo' = [todo EXCEPT ![r] =
                    IF t.cls = "CleanupTask" THEN t.cleanup_dirs ELSE {}]
            /\ log' = [log EXCEPT ![r] = Append(@, Event("start", t, fs))]
       ELSE \* "Unfulfilled dependency at run time"
            /\ status' = [status EXCEPT ![r][t] = "Failed"]
            /\ log' = [log EXCEPT ![r] = Append(@, Event("unfulfilled", t, fs))]
            /\ UNCHANGED <<pc, todo>>
    /\ UNCHANGED <<fs, phase, target, fs0, last, nruns, hist, df_in, df_out>>

\* run() returns: the task is DONE
Succeed(r, t, f) ==
    /\ fs' = f
    /\ status' = [status EXCEPT ![r][t] = "Succeeded"]
    /\ pc' = [pc EXCEPT ![r] = "none"]
    /\ todo' = [todo EXCEPT ![r] = {}]
    /\ log' = [log EXCEPT ![r] = Append(@, Event("ok", t, f))]
    /\ hist' = hist \cup {<<t.cls, t.dataset_name>>}

\* run() goes on to its next position
Goto(r, f, p, td) ==
    /\ fs' = f
    /\ pc' = [pc EXCEPT ![r] = p]
    /\ todo' = [todo EXCEPT ![r] = td]
    /\ UNCHANGED <<status, log, hist>>

\* wget's filename_fix_existing: "<name> (1).<ext>", the name split at its
\* last dot (the index is always 1: wget looks for earlier " (n)" copies in
\* the current directory, where a path with a directory in it matches nothing)
FilenameFixExisting(n) ==
    LET i == CHOOSE k \in DOMAIN n :
                 n[k] = "." /\ \A j \in DOMAIN n : j > k => n[j] # "."
    IN  SubSeq(n, 1, i - 1) \o <<" ", "(", "1", ")">> \o SubSeq(n, i, Len(n))

\* DownloadDatasetTask.run
DownloadRun(r, t) ==
    /\ t \in Running(r)
    /\ t.cls = "DownloadDatasetTask"
    /\ CASE pc[r] = "makedirs" ->
                Goto(r, MakeDirs(fs, t.download_dir), "download", {})
         [] pc[r] = "download" ->
                \* wget.download(url, out=self.output().path) fetches into a
                \* temporary file and moves it to out, or to the " (1)" name
                \* when out exists by then
                /\ DirExists(fs, output(t).dir)
                /\ Succeed(r, t,
                       WriteFile(fs, output(t).dir,
                                 IF Exists(fs, output(t))
                                 THEN FilenameFixExisting(output(t).name)
                                 ELSE output(t).name,
                                 Tar(t.dataset_name)))
    /\ UNCHANGED <<phase, target, fs0, last, nruns, df_in, df_out>>

\* self.input(): the output of the task requires() returns
input(t) == output(CHOOSE d \in requires(t) : TRUE)

\* ExtractDatasetTask.run
ExtractRun(r, t) ==
    /\ t \in Running(r)
    /\ t.cls = "ExtractDatasetTask"
    /\ CASE pc[r] = "makedirs" ->
                Goto(r, MakeDirs(fs, t.extract_dir), "open", {})
         [] pc[r] = "open" ->
                \* tarfile.open(self.input().path, 'r')
                /\ Exists(fs, input(t))
                /\ Content(fs, input(t).dir, input(t).name).type = "tar"
                /\ Goto(r, fs, "extract",
                        Members(Content(fs, input(t).dir, input(t).name).of))
         [] pc[r] = "extract" ->
                \* tar.extractall(path=self.extract_dir), member by member
                /\ DirExists(fs, t.extract_dir)
                /\ IF todo[r] = <<>>
                   THEN Succeed(r, t, fs)
                   ELSE Goto(r, WriteFile(fs, t.extract_dir, Head(todo[r]).name,
                                          Head(todo[r]).content),
                             "extract", Tail(todo[r]))
    /\ UNCHANGED <<phase, target, fs0, last, nruns, df_in, df_out>>

\* the name _decompress_file writes for file_path
ProcessedName(n) == Replace(n, GzSuffix, ProcessedSuffix)

\* ProcessDatasetTask.run
ProcessRun(r, t) ==
    /\ t \in Running(r)
    /\ t.cls = "ProcessDatasetTask"
    /\ CASE pc[r] = "makedirs" ->
                Goto(r, MakeDirs(fs, t.processed_dir), "walk", {})
         [] pc[r] = "walk" ->
                \* os.walk(self.extract_dir) lists the directory once
                Goto(r, fs, "files", ListDir(fs, t.extract_dir))
         [] pc[r] = "files" ->
                IF todo[r] = {}
                THEN Succeed(r, t, fs)
                ELSE \E n \in todo[r] :
                        IF EndsWith(n, TxtGzSuffix)
                        THEN \* _decompress_file: gzip.open(...).read(), open(..., 'w')
                             /\ FileExists(fs, t.extract_dir, n)
                             /\ Content(fs, t.extract_dir, n).type = "gz"
                             /\ DirExists(fs, t.processed_dir)
                             /\ Goto(r, WriteFile(fs, t.processed_dir, ProcessedName(n),
                                        Text(Content(fs, t.extract_dir, n).lines)),
                                     "files", todo[r] \ {n})
                        ELSE Goto(r, fs, "files", todo[r] \ {n})
    /\ UNCHANGED <<phase, target, fs0, last, nruns, df_in, df_out>>

\* the name _trim_columns writes for file_path
TrimmedName(n) == Replace(n, ProcessedSuffix, TrimmedSuffix)

\* TrimDatasetColumnsTask.run
TrimRun(r, t) ==
    /\ t \in Running(r)
    /\ t.cls = "TrimDatasetColumnsTask"
    /\ CASE pc[r] = "makedirs" ->
                Goto(r, MakeDirs(fs, t.trimmed_dir), "walk", {})
         [] pc[r] = "walk" ->
                Goto(r, fs, "files", ListDir(fs, t.processed_dir))
         [] pc[r] = "files" ->
                IF todo[r] = {}
                THEN Succeed(r, t, fs)
                ELSE \E n \in todo[r] :
                        IF EndsWith(n, ProcessedSuffix)
                        THEN \* _trim_columns: read_csv, drop, to_csv
                             /\ FileExists(fs, t.processed_dir, n)
                             /\ Content(fs, t.processed_dir, n).type = "text"
                             /\ CanReadCsv(Content(fs, t.processed_dir, n).lines)
                             /\ DirExists(fs, t.trimmed_dir)
                             /\ Goto(r, WriteFile(fs, t.trimmed_dir, TrimmedName(n),
                                        Text(TrimmedLines(
                                            Content(fs, t.processed_dir, n).lines))),
                                     "files", todo[r] \ {n})
                        ELSE Goto(r, fs, "files", todo[r] \ {n})
    /\ UNCHANGED <<phase, target, fs0, last, nruns, df_in, df_out>>

\* a CleanupTask.run that removes the directories and writes no sentinel
CleanupRunNoSentinel(r, t) ==
    /\ t \in Running(r)
    /\ t.cls = "CleanupTask"
    /\ CASE pc[r] = "dirs" ->
                IF todo[r] = <<>>
                THEN Goto(r, fs, "sentinel", <<>>)
                ELSE Goto(r, IF DirExists(fs, Head(todo[r]))
                             THEN RmTree(fs, Head(todo[r])) ELSE fs,
                          "dirs", Tail(todo[r]))
         [] pc[r] = "sentinel" -> Succeed(r, t, fs)
    /\ UNCHANGED <<phase, target, fs0, last, nruns, df_in, df_out>>

\* CleanupTask.run
CleanupRun(r, t) ==
    /\ t \in Running(r)
    /\ t.cls = "CleanupTask"
    /\ CASE pc[r] = "dirs" ->
                IF todo[r] = <<>>
                THEN Goto(r, fs, "sentinel", <<>>)
                ELSE Goto(r, IF DirExists(fs, Head(todo[r]))
                             THEN RmTree(fs, Head(todo[r])) ELSE fs,
                          "dirs", Tail(todo[r]))
         [] pc[r] = "sentinel" ->
                \* self.output().open('w'): written aside, moved into place
                Succeed(r, t, WriteFile(fs, output(t).dir, output(t).name,
                                        Text(<<<<"Cleanup completed.">>>>)))
    /\ UNCHANGED <<phase, target, fs0, last, nruns, df_in, df_out>>

\* a failure after which the task is PENDING again and is run again
FailAndRetry(r, t) ==
    /\ t \in Running(r)
    /\ status' = [status EXCEPT ![r][t] = "Pending"]
    /\ pc' = [pc EXCEPT ![r] = "none"]
    /\ todo' = [todo EXCEPT ![r] = {}]
    /\ log' = [log EXCEPT ![r] = Append(@, Event("fail", t, fs))]
    /\ UNCHANGED <<fs, phase, target, fs0, last, nruns, hist, df_in, df_out>>

\* a worker that undoes the run when run() raises: the directory is put back
\* as it was when the run was scheduled
FailAndRollback(r, t) ==
    /\ t \in Running(r)
    /\ fs' = fs0[r]
    /\ status' = [status EXCEPT ![r][t] = "Failed"]
    /\ pc' = [pc EXCEPT ![r] = "none"]
    /\ todo' = [todo EXCEPT ![r] = {}]
    /\ log' = [log EXCEPT ![r] = Append(@, Event("fail", t, fs0[r]))]
    /\ UNCHANGED <<phase, target, fs0, last, nruns, hist, df_in, df_out>>

\* run() raises at its current position (the network, the disk, the data):
\* the task is FAILED and the worker goes on
Fail(r, t) ==
    /\ t \in Running(r)
    /\ status' = [status EXCEPT ![r][t] = "Failed"]
    /\ pc' = [pc EXCEPT ![r] = "none"]
    /\ todo' = [todo EXCEPT ![r] = {}]
    /\ log' = [log EXCEPT ![r] = Append(@, Event("fail", t, fs))]
    /\ UNCHANGED <<fs, phase, target, fs0, last, nruns, hist, df_in, df_out>>

\* nothing is running and nothing can be handed out
RunOver(r) ==
    /\ phase[r] = "running"
    /\ Running(r) = {}
    /\ \A t \in Graph(r) : ~Runnable(r, t)

\* the worker exits and luigi.run() returns
Finish(r) ==
    /\ RunOver(r)
    /\ last' = [target |-> target[r],
                 failed |-> {t \in Graph(r) : status[r][t] = "Failed"},
                 fs |-> fs]
    /\ phase' = [phase EXCEPT ![r] = "idle"]
    /\ target' = [target EXCEPT ![r] = NoTask]
    /\ status' = [status EXCEPT ![r] = NoStatus]
    /\ log' = [log EXCEPT ![r] = <<>>]
    /\ fs0' = [fs0 EXCEPT ![r] = EmptyFs]
    /\ UNCHANGED <<fs, pc, todo, nruns, hist, df_in, df_out>>

Init ==
    /\ fs = EmptyFs
    /\ phase = [r \in Runners |-> "idle"]
    /\ target = [r \in Runners |-> NoTask]
    /\ status = [r \in Runners |-> NoStatus]
    /\ pc = [r \in Runners |-> "none"]
    /\ todo = [r \in Runners |-> {}]
    /\ log = [r \in Runners |-> <<>>]
    /\ fs0 = [r \in Runners |-> EmptyFs]
    /\ last = NoRun
    /\ nruns = 0
    /\ hist = {}
    /\ df_in = <<>>
    /\ df_out = <<>>

Step(r) ==
    \/ \E t \in Targets : Schedule(r, t)
    \/ \E t \in Graph(r) : StartTask(r, t)
    \/ \E t \in Graph(r) : DownloadRun(r, t)
    \/ \E t \in Graph(r) : ExtractRun(r, t)
    \/ \E t \in Graph(r) : ProcessRun(r, t)
    \/ \E t \in Graph(r) : TrimRun(r, t)
    \/ \E t \in Graph(r) : CleanupRun(r, t)
    \/ \E t \in Graph(r) : Fail(r, t)
    \/ Finish(r)

\* one run at a time
Next == Step("r1")

Spec == Init /\ [][Next]_vars

(***************************************************************************)
(* Two runs of the same command line started concurrently in the same      *)
(* directory: two processes, each in luigi.run(), their steps interleaved   *)
(***************************************************************************)
\* python luigi_pipeline.py ProcessDatasetTask, in both processes
ConcTargets ==
    {ProcessDatasetTask(default_dataset_name, default_extract_dir, default_processed_dir)}

\* both runs are started before either is over
StepConc(r) ==
    \/ \E t \in ConcTargets : last = NoRun /\ Schedule(r, t)
    \/ \E t \in Graph(r) : StartTask(r, t)
    \/ \E t \in Graph(r) : DownloadRun(r, t)
    \/ \E t \in Graph(r) : ExtractRun(r, t)
    \/ \E t \in Graph(r) : ProcessRun(r, t)
    \/ \E t \in Graph(r) : Fail(r, t)
    \/ Finish(r)

NextConc == \E r \in Runners : StepConc(r)

SpecConc == Init /\ [][NextConc]_vars

(***************************************************************************)
(* _trim_columns on its own, over every small table                        *)
(***************************************************************************)
ColumnNames ==
    {"ID_REF", "VALUE", "Definition", "Ontology_Component", "Ontology_Process",
     "Ontology_Function"}

RowTags == {"a", "b"}

SeqsUpTo(S, n) == UNION {[1..k -> S] : k \in 0..n}

\* the headers: distinct column labels, as read_csv gives a data frame
Headers ==
    {h \in SeqsUpTo(ColumnNames, MaxCols) :
        \A i, j \in 1..Len(h) : i # j => h[i] # h[j]}

\* a field names its row and its column, so that a moved field shows
RowOf(h, tag) == [i \in 1..Len(h) |-> <<tag, h[i]>>]

TableFiles ==
    {<<h>> \o [k \in 1..Len(tags) |-> RowOf(h, tags[k])] :
        h \in Headers, tags \in SeqsUpTo(RowTags, MaxRows)}

InitTrim ==
    /\ fs = EmptyFs
    /\ phase = [r \in Runners |-> "idle"]
    /\ target = [r \in Runners |-> NoTask]
    /\ status = [r \in Runners |-> NoStatus]
    /\ pc = [r \in Runners |-> "none"]
    /\ todo = [r \in Runners |-> {}]
    /\ log = [r \in Runners |-> <<>>]
    /\ fs0 = [r \in Runners |-> EmptyFs]
    /\ last = NoRun
    /\ nruns = 0
    /\ hist = {}
    /\ df_in \in TableFiles
    /\ df_out = <<>>

\* _trim_columns(file_path, columns_to_remove)
TrimColumns ==
    /\ df_out = <<>>
    /\ CanReadCsv(df_in)
    /\ df_out' = TrimmedLines(df_in)
    /\ UNCHANGED <<runvars, df_in>>

NextTrim == TrimColumns

SpecTrim == InitTrim /\ [][NextTrim]_vars

(***************************************************************************)
(* Properties                                                              *)
(***************************************************************************)
\* the positions in the run's log where a run() was called
Starts(r) == {i \in DOMAIN log[r] : log[r][i].ev = "start"}

\* run() of t was called in the run
Executed(r, t) == \E i \in Starts(r) : log[r][i].task = t

\* the tasks t depends on, directly or not
RECURSIVE Upstream(_)
Upstream(t) == requires(t) \cup UNION {Upstream(d) : d \in requires(t)}

FailedIn(r) == {t \in Graph(r) : status[r][t] = "Failed"}

\* the run follows, with the same command line, a run that ended in success
SecondRun(r) ==
    /\ phase[r] = "running"
    /\ last.target = target[r]
    /\ last.failed = {}

\* C1 (idempotence): when a run ended in success and the same target is run
\* again, the second run calls no run() (every task it looks at is skipped as
\* complete) and leaves the working directory as the first run left it.
C1_Idempotence ==
    \A r \in Runners :
        SecondRun(r) =>
            /\ \A t \in Graph(r) : status[r][t] = "Skipped"
            /\ log[r] = <<>>
            /\ fs = last.fs

\* the second run of the whole pipeline is over, after the first one removed
\* the downloaded archive
C1_Witness ==
    \E r \in Runners :
        /\ SecondRun(r)
        /\ RunOver(r)
        /\ target[r] = CleanupTask(default_dataset_name, default_cleanup_dirs)
        /\ ~complete(fs, DownloadDatasetTask(default_dataset_name, default_download_dir))

\* every directory parameter of t has its default value
DefaultDirs(t) ==
    /\ t.download_dir \in {NA, default_download_dir}
    /\ t.extract_dir \in {NA, default_extract_dir}
    /\ t.processed_dir \in {NA, default_processed_dir}
    /\ t.trimmed_dir \in {NA, default_trimmed_dir}

\* the run follows, with the same command line and the default directories,
\* a run in which k failed
RerunAfterFailure(r, k) ==
    /\ RunOver(r)
    /\ last.target = target[r]
    /\ DefaultDirs(target[r])
    /\ k \in last.failed

\* C2 (resumability), for the default directories: when run() of stage k
\* failed, the next run of the same target executes stage k, executes none of the stages before k and, unless a
\* stage fails again, executes the stages after k up to the target.
C2_Resumability ==
    \A r \in Runners : \A k \in last.failed :
        RerunAfterFailure(r, k) =>
            /\ Executed(r, k)
            /\ \A u \in Upstream(k) : ~Executed(r, u)
            /\ FailedIn(r) = {} =>
                  \A x \in Upstream(target[r]) \cup {target[r]} :
                      k \in Upstream(x) => Executed(r, x)

\* C3 (ordering): a task's run() is called only after each task its requires()
\* returns was skipped as complete or returned from run() without error, and
\* no run() is called after the target's.
C3_Ordering ==
    \A r \in Runners : \A i \in Starts(r) :
        /\ \A d \in requires(log[r][i].task) :
              /\ d \in Graph(r)
              /\ \/ status[r][d] = "Skipped"
                 \/ \E j \in 1..(i - 1) : log[r][j].ev = "ok" /\ log[r][j].task = d
        /\ log[r][i].task = target[r] => \A j \in Starts(r) : j <= i

\* the whole chain was executed, the target last
C3_Witness ==
    \E r \in Runners :
        /\ RunOver(r)
        /\ target[r].cls = "CleanupTask"
        /\ Cardinality(Starts(r)) = 5
        /\ FailedIn(r) = {}

\* C4 (at most once): in one run no task's run() is called twice, not even
\* after it failed; the tasks of the run are a set of task identities (class
\* and parameter values), so none is in the run twice.
C4_AtMostOnce ==
    \A r \in Runners : \A i, j \in Starts(r) :
        log[r][i].task = log[r][j].task => i = j

\* a run is over in which a task failed after its run() was called once
C4_Witness ==
    \E r \in Runners :
        /\ RunOver(r)
        /\ \E t \in FailedIn(r) : Executed(r, t)
        /\ Cardinality(Graph(r)) >= 3

\* the positions in the run's log where a task failed
Failures(r) == {i \in DOMAIN log[r] : log[r][i].ev \in {"fail", "unfulfilled"}}

\* C5 (failure semantics): a run ends with every task of the run executed
\* successfully or skipped, or with exactly one failed task; after a failure
\* no run() is called in that run.
C5_FailureSemantics ==
    \A r \in Runners :
        /\ Cardinality(FailedIn(r)) <= 1
        /\ RunOver(r) =>
              \/ \A t \in Graph(r) : status[r][t] \in {"Skipped", "Succeeded"}
              \/ Cardinality(FailedIn(r)) = 1
        /\ \A i \in Failures(r) : \A j \in Starts(r) : j < i

\* a run is over with one failed task and a task after it never executed
C5_Witness ==
    \E r \in Runners :
        /\ RunOver(r)
        /\ Cardinality(FailedIn(r)) = 1
        /\ \E t \in Graph(r) : status[r][t] = "Pending"
        /\ \E t \in Graph(r) : status[r][t] = "Succeeded"

Classes ==
    {"DownloadDatasetTask", "ExtractDatasetTask", "ProcessDatasetTask",
     "TrimDatasetColumnsTask", "CleanupTask"}

\* C7 (the sentinel is per dataset): whenever CleanupTask(dataset_name = d) is
\* found complete, every stage has been executed successfully for d.
C7_SentinelPerDataset ==
    \A r \in Runners : \A t \in Graph(r) :
        (t.cls = "CleanupTask" /\ status[r][t] = "Skipped") =>
            \A c \in Classes : <<c, t.dataset_name>> \in hist

FooProcessedTxt ==
    <<"f", "o", "o", "_", "p", "r", "o", "c", "e", "s", "s", "e", "d", ".", "t", "x", "t">>

FooTrimmedTxt ==
    <<"f", "o", "o", "_", "t", "r", "i", "m", "m", "e", "d", ".", "t", "x", "t">>

\* the positions in the run's log where a run() returned
Returns(r) == {i \in DOMAIN log[r] : log[r][i].ev = "ok"}

\* C8 (file names): when ProcessDatasetTask has run over a directory holding
\* foo.txt.gz its output directory holds foo_processed.txt, and when
\* TrimDatasetColumnsTask has run over a directory holding foo_processed.txt
\* its output directory holds foo_trimmed.txt.
C8_FilenameTransformation ==
    \A r \in Runners : \A i \in Returns(r) :
        LET t == log[r][i].task
            f == log[r][i].fs
        IN  /\ (t.cls = "ProcessDatasetTask" /\ FileExists(f, t.extract_dir, FooTxtGz))
                  => FileExists(f, t.processed_dir, FooProcessedTxt)
            /\ (t.cls = "TrimDatasetColumnsTask"
                    /\ FileExists(f, t.processed_dir, FooProcessedTxt))
                  => FileExists(f, t.trimmed_dir, FooTrimmedTxt)

Range(q) == {q[i] : i \in DOMAIN q}

\* the directory as run() of t found it
FsAtStart(r, t) ==
    log[r][CHOOSE i \in Starts(r) : log[r][i].task = t].fs

\* the files of directory d
FilesIn(f, d) == {x \in f.files : x.dir = d}

SentinelFile ==
    [dir |-> Cwd, name |-> SentinelName, content |-> Text(<<<<"Cleanup completed.">>>>)]

\* C9 (cleanup): when CleanupTask.run returns it has removed the directories
\* listed in cleanup_dirs with what they held and nothing else, the output
\* directory of TrimDatasetColumnsTask and its files are as they were, and
\* the sentinel is there; while run() is still removing, the sentinel is not.
C9_CleanupScenario ==
    \A r \in Runners :
        /\ \A t \in Running(r) :
              t.cls = "CleanupTask" => ~FileExists(fs, Cwd, SentinelName)
        /\ \A i \in Returns(r) :
              LET t == log[r][i].task
                  f == log[r][i].fs
                  s == FsAtStart(r, t)
              IN  t.cls = "CleanupTask" =>
                    /\ f.dirs = s.dirs \ Range(t.cleanup_dirs)
                    /\ f.files =
                          {x \in s.files : x.dir \notin Range(t.cleanup_dirs)}
                              \cup {SentinelFile}
                    /\ DirExists(f, default_trimmed_dir)
                    /\ FilesIn(f, default_trimmed_dir) = FilesIn(s, default_trimmed_dir)

\* run() of CleanupTask found both directories and the trimmed files, and
\* has returned
C9_Witness ==
    \E r \in Runners : \E i \in Returns(r) :
        LET t == log[r][i].task
            s == FsAtStart(r, t)
        IN  /\ t = CleanupTask(default_dataset_name, default_cleanup_dirs)
            /\ DirExists(s, default_download_dir)
            /\ DirExists(s, default_extract_dir)
            /\ FilesIn(s, default_extract_dir) # {}
            /\ FilesIn(s, default_trimmed_dir) # {}
            /\ Executed(r, TrimDatasetColumnsTask(default_dataset_name,
                               default_processed_dir, default_trimmed_dir))

\* the place of label c in a header of distinct labels
Pos(h, c) == CHOOSE i \in 1..Len(h) : h[i] = c

Kept(c) == c \notin columns_to_remove

\* C10 (column projection): the table _trim_columns writes has the columns of
\* the table it read, less the four designated ones, in the same order, and
\* the same rows in the same order, each with its fields under the columns
\* kept; when none of the four is there the table written is the table read.
C10_ColumnProjection ==
    df_out # <<>> =>
        LET in == ReadCsv(df_in)
            out == ReadCsv(df_out)
        IN  /\ out.columns = SelectSeq(in.columns, Kept)
            /\ Len(out.rows) = Len(in.rows)
            /\ \A k \in 1..Len(in.rows) : \A c \in Range(out.columns) :
                  /\ Len(out.rows[k]) = Len(out.columns)
                  /\ out.rows[k][Pos(out.columns, c)] = in.rows[k][Pos(in.columns, c)]
            /\ Range(in.columns) \cap columns_to_remove = {} => df_out = df_in

\* a table with a designated column between two others, and two rows
C10_Witness ==
    /\ df_out # <<>>
    /\ Len(df_in) = 3
    /\ df_in[1] = <<"ID_REF", "Definition", "VALUE">>
    /\ df_in[2] # df_in[3]


\* C11 (success postcondition): whenever a task's run() has returned without
\* error, the task's output exists in the directory as run() left it.
C11_SuccessPostcondition ==
    \A r \in Runners : \A i \in Returns(r) :
        Exists(log[r][i].fs, output(log[r][i].task))

\* run() of each of the five classes has returned in one run
C11_Witness ==
    \E r \in Runners : \A c \in Classes :
        \E i \in Returns(r) : log[r][i].task.cls = c


\* C12 (dataset identity threading): during a run, every task of the target's
\* dependency closure, and every task the run has added or executed, carries
\* the target's dataset_name; the tasks of the run are the ones added when the
\* run was scheduled, each with the parameters it was constructed with.
C12_DatasetThreading ==
    \A r \in Runners : phase[r] = "running" =>
        /\ \A t \in Upstream(target[r]) \cup Graph(r) :
              t.dataset_name = target[r].dataset_name
        /\ Graph(r) = Added(fs0[r], target[r])
        /\ Graph(r) \subseteq {target[r]} \cup Upstream(target[r])
        /\ \A i \in DOMAIN log[r] : log[r][i].task \in Graph(r)

\* a run for the other dataset has added all five tasks and executed them
C12_Witness ==
    \E r \in Runners :
        /\ phase[r] = "running"
        /\ target[r].dataset_name = OtherDataset
        /\ Cardinality(Graph(r)) = 5
        /\ \A t \in Graph(r) : status[r][t] = "Succeeded"


\* the tasks whose run() raised in the run
FailedBody(r) ==
    {log[r][i].task : i \in {j \in DOMAIN log[r] : log[r][j].ev = "fail"}}

\* what is at a location: whether it exists, and the file there or the files
\* of the directory
Artifact(f, loc) ==
    [exists |-> Exists(f, loc),
     files  |-> IF loc.name = <<>> THEN FilesIn(f, loc.dir)
                ELSE {x \in f.files : x.dir = loc.dir /\ x.name = loc.name}]

\* the directory as it was when u was done in the run: when run() of u
\* returned, or when the run was scheduled for a task skipped as complete
FsWhenDone(r, u) ==
    IF \E i \in Returns(r) : log[r][i].task = u
    THEN log[r][CHOOSE i \in Returns(r) : log[r][i].task = u].fs
    ELSE fs0[r]

\* the tasks a failed task depends on that were done in the run
DoneUpstream(r, t) ==
    {u \in Upstream(t) \cap Graph(r) : status[r][u] \in {"Skipped", "Succeeded"}}

\* C13 as stated (no rollback on failure): when run() of a task has failed and
\* the run is over, the output of every upstream task that succeeded or was
\* skipped in the run exists and is as it was when that task was done.
C13_UpstreamUnchanged ==
    \A r \in Runners : RunOver(r) =>
        \A t \in FailedBody(r) : \A u \in DoneUpstream(r, t) :
            /\ Exists(fs, output(u))
            /\ Artifact(fs, output(u)) = Artifact(FsWhenDone(r, u), output(u))

\* C13 (no rollback on failure), amended: when run() of a task has failed and
\* the run is over, the output of every upstream task that succeeded or was
\* skipped in the run exists and is as it was when that task was done, unless
\* the failed task is CleanupTask and the output lay in a directory of its
\* cleanup_dirs that run() had removed before it failed.
C13_NoRollback ==
    \A r \in Runners : RunOver(r) =>
        \A t \in FailedBody(r) : \A u \in DoneUpstream(r, t) :
            \/ /\ Exists(fs, output(u))
               /\ Artifact(fs, output(u)) = Artifact(FsWhenDone(r, u), output(u))
            \/ /\ t.cls = "CleanupTask"
               /\ output(u).dir \in Range(t.cleanup_dirs)
               /\ ~DirExists(fs, output(u).dir)

\* CleanupTask.run failed after it removed the download directory: the
\* archive DownloadDatasetTask wrote in this run is gone, the output of
\* ExtractDatasetTask is as ExtractDatasetTask left it
C13_Witness ==
    \E r \in Runners :
        /\ RunOver(r)
        /\ \E t \in FailedBody(r) :
              /\ t.cls = "CleanupTask"
              /\ \E u \in DoneUpstream(r, t) :
                    /\ u.cls = "DownloadDatasetTask"
                    /\ status[r][u] = "Succeeded"
                    /\ ~Exists(fs, output(u))
              /\ \E u \in DoneUpstream(r, t) :
                    /\ u.cls = "ExtractDatasetTask"
                    /\ status[r][u] = "Succeeded"
                    /\ Artifact(fs, output(u)) = Artifact(FsWhenDone(r, u), output(u))
                    /\ FilesIn(fs, output(u).dir) # {}


\* the moves of a task's status inside a run
TaskMoves ==
    {<<"Pending", "Running">>, <<"Running", "Succeeded">>, <<"Running", "Failed">>}

\* one step of runner r keeps to the per-task state machine: a task enters the
\* run Pending or Skipped, and inside the run the tasks stay the same and each
\* status stays or makes one of the moves
StatusStep(r) ==
    /\ (phase[r] = "idle" /\ phase'[r] = "running") =>
          \A t \in DOMAIN status'[r] : status'[r][t] \in {"Pending", "Skipped"}
    /\ (phase[r] = "running" /\ phase'[r] = "running") =>
          /\ DOMAIN status'[r] = Graph(r)
          /\ \A t \in Graph(r) :
                \/ status'[r][t] = status[r][t]
                \/ <<status[r][t], status'[r][t]>> \in TaskMoves

\* C14 (per-task state machine, sequential execution): within a run a task is
\* Skipped from the start, or goes Pending -> Running -> Succeeded or
\* Pending -> Running -> Failed, and never leaves Skipped, Succeeded or
\* Failed; at most one task of the run is Running at any time.
C14_StateMachine ==
    /\ [](\A r \in Runners : Cardinality(Running(r)) <= 1)
    /\ [][\A r \in Runners : StatusStep(r)]_vars

\* a run is over with a skipped task, a succeeded task, a failed task and a
\* task that was never started
C14_Witness ==
    \E r \in Runners :
        /\ RunOver(r)
        /\ \A st \in {"Skipped", "Succeeded", "Failed", "Pending"} :
              \E t \in Graph(r) : status[r][t] = st


\* run() of t in run r is about to write a file into the output directory of t
Writing(r, t) ==
    /\ t \in Running(r)
    /\ \/ t.cls = "ExtractDatasetTask" /\ pc[r] = "extract" /\ todo[r] # <<>>
       \/ /\ t.cls = "ProcessDatasetTask"
          /\ pc[r] = "files"
          /\ \E n \in todo[r] : EndsWith(n, TxtGzSuffix)

\* C15 (uncoordinated concurrent runs): with two runs of the same command
\* line going on in the same directory, a run that found a task's output
\* missing when it was scheduled never skips the task, whatever the other run
\* has written since, and whenever the worker of a run is free and a pending
\* task has its requirements done and their outputs in place, the worker can
\* start the task's run(), whatever the other run is doing, also while the
\* other run is inside run() of the same task.
C15_Uncoordinated ==
    \A r \in Runners : phase[r] = "running" =>
        \A t \in Graph(r) :
            /\ ~complete(fs0[r], t) => status[r][t] # "Skipped"
            /\ (/\ Running(r) = {}
                /\ Runnable(r, t)
                /\ \A d \in requires(t) : complete(fs, d))
                  => ENABLED (StartTask(r, t) /\ status'[r][t] = "Running")

\* both runs are inside run() of the same ProcessDatasetTask, each about to
\* write into data_processed, and both were inside run() of the same
\* ExtractDatasetTask before
C15_Witness ==
    \E t \in ConcTargets :
        /\ \A r \in Runners : Writing(r, t)
        /\ \A r \in Runners : \E u \in requires(t) :
              status[r][u] = "Succeeded"


\* the location run() of t reads its input from: the archive self.input()
\* names (line 39), the directory os.walk is given (lines 57, 91)
reads(t) ==
    CASE t.cls = "ExtractDatasetTask" -> input(t)
      [] t.cls = "ProcessDatasetTask" -> DirLoc(t.extract_dir)
      [] t.cls = "TrimDatasetColumnsTask" -> DirLoc(t.processed_dir)

\* C16 (input/output wiring): whenever run() of ExtractDatasetTask,
\* ProcessDatasetTask or TrimDatasetColumnsTask has returned, the location it
\* read its input from is the output location of the task its requires()
\* constructs, whatever the location parameters of the task.
C16_InputOutputWiring ==
    \A r \in Runners : \A i \in Returns(r) :
        LET t == log[r][i].task
        IN  t.cls \in {"ExtractDatasetTask", "ProcessDatasetTask",
                       "TrimDatasetColumnsTask"}
                => reads(t) = input(t)


\* python luigi_pipeline.py CleanupTask
DefaultCleanup == CleanupTask(default_dataset_name, default_cleanup_dirs)

\* the run of CleanupTask with default parameters is over, in success
CleanupSucceeded(r) ==
    /\ RunOver(r)
    /\ target[r] = DefaultCleanup
    /\ FailedIn(r) = {}

\* t requested as a target now is found complete: the run adds t alone,
\* skipped, and has nothing to execute
ExecutesNothing(t) == Scheduled(fs, t) = [x \in {t} |-> "Skipped"]

\* C17 as stated (completeness after success): when a run of CleanupTask with
\* default parameters is over in success, the output of every task of its
\* dependency closure exists, and each of them requested as a target then
\* executes nothing.
C17_AllComplete ==
    \A r \in Runners : CleanupSucceeded(r) =>
        \A t \in {DefaultCleanup} \cup Upstream(DefaultCleanup) :
            complete(fs, t) /\ ExecutesNothing(t)

\* C17 (completeness after success), amended: when a run of CleanupTask with
\* default parameters is over in success, the outputs of ProcessDatasetTask,
\* TrimDatasetColumnsTask and CleanupTask exist and each of them requested as
\* a target then executes nothing; when CleanupTask.run was executed in the
\* run, the outputs of DownloadDatasetTask and ExtractDatasetTask do not
\* exist and each of them requested as a target is pending again.
C17_CompleteAfterCleanup ==
    \A r \in Runners : CleanupSucceeded(r) =>
        \A t \in {DefaultCleanup} \cup Upstream(DefaultCleanup) :
            IF t.cls \in {"ProcessDatasetTask", "TrimDatasetColumnsTask", "CleanupTask"}
            THEN complete(fs, t) /\ ExecutesNothing(t)
            ELSE Executed(r, DefaultCleanup) =>
                    /\ ~complete(fs, t)
                    /\ Scheduled(fs, t)[t] = "Pending"

\* the whole pipeline ran in one run, CleanupTask.run last: the archive and
\* the extraction directory are gone, the outputs of the last three tasks are
\* there
C17_Witness ==
    \E r \in Runners :
        /\ CleanupSucceeded(r)
        /\ \A t \in Graph(r) : status[r][t] = "Succeeded"
        /\ Cardinality(Graph(r)) = 5
        /\ ~Exists(fs, FileLoc(default_download_dir, RawTarName(default_dataset_name)))
        /\ ~DirExists(fs, default_extract_dir)
        /\ FilesIn(fs, default_trimmed_dir) # {}
        /\ FileExists(fs, Cwd, SentinelName)

====
